---- MODULE Spec2Model ----
(***************************************************************************)
(* Model of the analytics dashboard of Seminario-Api-Core                  *)
(* (src/src/services/analytics_service.py) over the message store of       *)
(* src/src/models.py.                                                      *)
(*                                                                         *)
(* Conventions                                                             *)
(*  - a date is its proleptic ordinal (an integer number of days), a stored *)
(*    timestamp is a naive datetime (the DateTime columns carry no zone),   *)
(*    written as whole seconds since the midnight of ordinal 0;             *)
(*  - an Optional value is None == <<>> or <<v>>;                           *)
(*  - an unrounded float is the exact fraction [num, den] (den > 0) and a   *)
(*    value rounded by round(x, 2) is the integer number of hundredths.     *)
(***************************************************************************)
EXTENDS Integers, Sequences, FiniteSets, Bags, TLC

(* ------------------------------ bounds --------------------------------- *)
MaxMsgs == 3
MaxDayOffset == 6
MaxHours == 4

(* --------------------------- program constants ------------------------- *)
SecondsPerDay == 86400
SLA_MINUTES   == 1440
BuenosAiresOffset == -10800

DefaultChannels == <<"whatsapp", "gmail", "instagram">>
Directions == {"incoming", "outgoing"}

(* ------------------------------- inputs -------------------------------- *)
(* the channels and participants that requests name *)
RequestChannels == {1, 2}
Participants == {"p1"}

(* the reference dates: the week that starts on the Monday of ordinal 15 *)
RefMonday == 1 + 2 * 7
Days == RefMonday .. RefMonday + MaxDayOffset

(* channels, conversations, messages: the rows the session of the request  *)
(*   in progress reads (all committed rows when no request is in progress) *)
(* hidden: the rows other transactions committed that the transaction of   *)
(*   the request in progress does not see                                  *)
(* isolation: the isolation level of the transactions of the MySQL server  *)
(* tzdata: the keys the time zone database of the host can resolve         *)
(* now: the instant the clock of the host shows, in seconds (UTC)          *)
VARIABLES channels, conversations, messages, pc, today, r, tzdata, hidden, isolation, now

vars == <<channels, conversations, messages, pc, today, r, tzdata, hidden, isolation, now>>

None == <<>>
Some(v) == <<v>>

(* the timestamps a request may carry: 1441 minutes and one second before  *)
(* the local midnight that starts RefMonday, that midnight, and the local  *)
(* midnight that ends RefMonday's week                                     *)
WeekEdge == RefMonday * SecondsPerDay - BuenosAiresOffset
TimeStamps == { WeekEdge - 1441 * 60,
                WeekEdge - 1,
                WeekEdge,
                WeekEdge + 7 * SecondsPerDay }

(* ------------------------------ helpers -------------------------------- *)
RECURSIVE SumF(_, _)
SumF(f, S) == IF S = {} THEN 0
              ELSE LET x == CHOOSE y \in S : TRUE
                   IN  f[x] + SumF(f, S \ {x})

Min(S) == CHOOSE x \in S : \A y \in S : x <= y

ConvIds == 1 .. Len(conversations)

(* number of rows of the messages table among the distinct rows S *)
CountMsgs(S) == SumF([m \in S |-> CopiesIn(m, messages)], S)

(* round(num/den, 2) in hundredths: nearest, ties to even (den > 0); the   *)
(* whole part is split off first so that the products stay small           *)
Round2(num, den) ==
    LET whole == num \div den
        rest  == num % den
        q     == (200 * rest + den) \div (2 * den)
        tie   == (200 * rest + den) % (2 * den) = 0
    IN  100 * whole + (IF tie /\ q % 2 = 1 THEN q - 1 ELSE q)

Round2Opt(x) == IF x = None THEN None ELSE Some(Round2(x[1].num, x[1].den))

(* ------------------------- window calculator --------------------------- *)
weekday(d) == (d + 6) % 7

BuenosAires == "America/Argentina/Buenos_Aires"
ZoneKeys == {BuenosAires, "UTC"}

(* ZoneInfo(key) raises ZoneInfoNotFoundError unless the database has key *)
ZoneInfoRaises(key) == key \notin tzdata

(* the zone of dashboard(): ZoneInfo(BuenosAires), and in the except       *)
(* handler ZoneInfo("UTC")                                                 *)
zone == IF ZoneInfoRaises(BuenosAires) THEN "UTC" ELSE BuenosAires

utcoffset(z) == IF z = "UTC" THEN 0 ELSE BuenosAiresOffset

(* datetime.combine(d, time.min, tzinfo=z).astimezone(UTC) *)
local_midnight_utc(d, z) == d * SecondsPerDay - utcoffset(z)

(* faulty variant: isoweekday() (1..7) in place of weekday() (0..6) *)
this_week_start_iso(t) == t - (weekday(t) + 1)

this_week_start(t) == t - weekday(t)
this_week_end(t)   == this_week_start(t) + 6
last_week_start(t) == this_week_start(t) - 7

(* faulty variant: the previous week ends two days before this one starts *)
last_week_end_short(t) == this_week_start(t) - 2

last_week_end(t)   == this_week_start(t) - 1

(* faulty variant: the week starts at the UTC midnight of its Monday *)
from_dt_utc_midnight(week_start) == week_start * SecondsPerDay

from_dt(week_start) == local_midnight_utc(week_start, zone)
to_dt(week_end)     == local_midnight_utc(week_end + 1, zone)

(* ---------------------------- FRT calculator --------------------------- *)
(* timestamp of query(Message).filter(conversation_id == c,                *)
(*   direction == dir).order_by(timestamp.asc()).first(), or None          *)
first_ts(c, dir) ==
    LET S == {m.timestamp : m \in {n \in BagToSet(messages) :
                                   n.conversation_id = c /\ n.direction = dir}}
    IN  IF S = {} THEN None ELSE Some(Min(S))

(* faulty variant: the gap is rounded up to the next whole minute *)
frt_minutes_ceil(received, response) == (response - received + 59) \div 60

(* faulty variant: a response before the inquiry gets an FRT of 0 *)
frt_minutes_clamped(received, response) ==
    IF response < received THEN 0 ELSE (response - received) \div 60

(* faulty variant: the quotient is truncated toward zero *)
frt_minutes_truncated(received, response) ==
    IF response < received THEN - ((received - response) \div 60)
    ELSE (response - received) \div 60

frt_minutes(received, response) == (response - received) \div 60

(* faulty variant: an unanswered conversation gets an FRT of 0 instead of None *)
calculate_frt_all_unanswered_zero ==
    [c \in ConvIds |->
        LET first_incoming == first_ts(c, "incoming")
            first_outgoing == first_ts(c, "outgoing")
        IN  IF first_incoming # None
            THEN Some(IF first_outgoing # None
                      THEN frt_minutes(first_incoming[1], first_outgoing[1])
                      ELSE 0)
            ELSE None]

calculate_frt_all ==
    [c \in ConvIds |->
        LET first_incoming == first_ts(c, "incoming")
            first_outgoing == first_ts(c, "outgoing")
        IN  IF first_incoming # None /\ first_outgoing # None
            THEN Some(frt_minutes(first_incoming[1], first_outgoing[1]))
            ELSE None]

(* conversation ids of the outgoing messages with timestamp in [f, t) *)
outgoing_in_week(f, t) ==
    {m.conversation_id : m \in {n \in BagToSet(messages) :
        n.direction = "outgoing" /\ n.timestamp >= f /\ n.timestamp < t}}

(* the list frt_weekly, keyed by the conversation each value comes from *)
calculate_frt_weekly(f, t) ==
    LET conv_ids == {c \in outgoing_in_week(f, t) :
                        first_ts(c, "incoming") # None /\ first_ts(c, "outgoing") # None}
    IN  [c \in conv_ids |->
            frt_minutes(first_ts(c, "incoming")[1], first_ts(c, "outgoing")[1])]

(* faulty variant: any incoming message in the week, not only the first one *)
get_conversations_with_any_in_in_week(f, t) ==
    {c \in ConvIds :
        \E m \in BagToSet(messages) :
            /\ m.conversation_id = c /\ m.direction = "incoming"
            /\ m.timestamp >= f /\ m.timestamp < t}

get_conversations_with_first_in_in_week(f, t) ==
    {c \in ConvIds :
        LET first_incoming == first_ts(c, "incoming")
        IN  /\ first_incoming # None
            /\ first_incoming[1] >= f
            /\ first_incoming[1] < t}

(* ------------------------------ general -------------------------------- *)
general_frts_min ==
    LET frt_data == calculate_frt_all
        keys == {c \in DOMAIN frt_data : frt_data[c] # None}
    IN  [c \in keys |-> frt_data[c][1]]

(* faulty variant: the sum is divided by the number of conversations *)
general_frt_avg_over_all ==
    LET frts_min == general_frts_min
    IN  IF Len(conversations) = 0 THEN None
        ELSE Some([num |-> SumF(frts_min, DOMAIN frts_min),
                   den |-> Len(conversations)])

general_frt_avg ==
    LET frts_min == general_frts_min
    IN  IF DOMAIN frts_min = {} THEN None
        ELSE Some([num |-> SumF(frts_min, DOMAIN frts_min),
                   den |-> Cardinality(DOMAIN frts_min)])

general_ok24 ==
    LET frts_min == general_frts_min
    IN  Cardinality({c \in DOMAIN frts_min : frts_min[c] <= SLA_MINUTES})

(* faulty variant: the denominator is the number of answered conversations *)
general_pct24h_over_answered ==
    LET total_conv == Cardinality(DOMAIN general_frts_min)
    IN  IF total_conv = 0 THEN None
        ELSE Some([num |-> 100 * general_ok24, den |-> total_conv])

general_pct24h ==
    LET total_conv == Len(conversations)
    IN  IF total_conv = 0 THEN None
        ELSE Some([num |-> 100 * general_ok24, den |-> total_conv])

(* faulty variant: a message without conversation row is kept by the join *)
(* (outer join) and falls to the first channel                             *)
joined_outer(m, ch) ==
    IF m.conversation_id \in ConvIds
    THEN conversations[m.conversation_id].channel_id = ch
    ELSE ch = 1

(* faulty variant: the join without the filter on the channel *)
joined_any_channel(m, ch) == m.conversation_id \in ConvIds

(* query(Message).join(Conversation).filter(Conversation.channel_id == ch, *)
(*   Message.direction == dir [, timestamp in [f, t)]).count()             *)
joined(m, ch) ==
    /\ m.conversation_id \in ConvIds
    /\ conversations[m.conversation_id].channel_id = ch

(* faulty variant: only the channels that have a message (GROUP BY) *)
por_canal_total_grouped ==
    [ch \in {k \in 1 .. Len(channels) : \E m \in BagToSet(messages) : joined(m, k)} |->
        [ name |-> channels[ch],
          in   |-> CountMsgs({m \in BagToSet(messages) : joined(m, ch) /\ m.direction = "incoming"}),
          out  |-> CountMsgs({m \in BagToSet(messages) : joined(m, ch) /\ m.direction = "outgoing"}) ]]

por_canal_total ==
    [ch \in 1 .. Len(channels) |->
        [ name |-> channels[ch],
          in   |-> CountMsgs({m \in BagToSet(messages) : joined(m, ch) /\ m.direction = "incoming"}),
          out  |-> CountMsgs({m \in BagToSet(messages) : joined(m, ch) /\ m.direction = "outgoing"}) ]]

build_general_metrics ==
    [ frt_avg_min          |-> Round2Opt(general_frt_avg),
      pct_respondido_24h   |-> Round2Opt(general_pct24h),
      conversations_total  |-> Len(conversations),
      mensajes_totales_in  |-> CountMsgs({m \in BagToSet(messages) : m.direction = "incoming"}),
      mensajes_totales_out |-> CountMsgs({m \in BagToSet(messages) : m.direction = "outgoing"}),
      por_canal_total      |-> por_canal_total ]

(* ------------------------------- weekly -------------------------------- *)
(* faulty variant: the interval is closed at its upper end *)
in_week_closed(m, f, t) == m.timestamp >= f /\ m.timestamp <= t

in_week(m, f, t) == m.timestamp >= f /\ m.timestamp < t

msgs_in_week(f, t) == {m \in BagToSet(messages) : in_week(m, f, t)}

weekly_frt_avg(f, t) ==
    LET frt_weekly == calculate_frt_weekly(f, t)
    IN  IF DOMAIN frt_weekly = {} THEN None
        ELSE Some([num |-> SumF(frt_weekly, DOMAIN frt_weekly),
                   den |-> Cardinality(DOMAIN frt_weekly)])

(* faulty variant: strict comparison with the threshold *)
weekly_ok24_strict(f, t) ==
    LET conv_in_week == get_conversations_with_first_in_in_week(f, t)
        frt_data_all == calculate_frt_all
    IN  Cardinality({c \in conv_in_week :
            /\ c \in DOMAIN frt_data_all
            /\ frt_data_all[c] # None
            /\ frt_data_all[c][1] < SLA_MINUTES})

weekly_ok24(f, t) ==
    LET conv_in_week == get_conversations_with_first_in_in_week(f, t)
        frt_data_all == calculate_frt_all
    IN  Cardinality({c \in conv_in_week :
            /\ c \in DOMAIN frt_data_all
            /\ frt_data_all[c] # None
            /\ frt_data_all[c][1] <= SLA_MINUTES})

weekly_pct24h(f, t) ==
    LET total_conv_week == Cardinality(get_conversations_with_first_in_in_week(f, t))
    IN  IF total_conv_week = 0 THEN None
        ELSE Some([num |-> 100 * weekly_ok24(f, t), den |-> total_conv_week])

por_canal(f, t) ==
    [ch \in 1 .. Len(channels) |->
        LET msgs_channel == {m \in BagToSet(messages) : joined(m, ch) /\ in_week(m, f, t)}
        IN  [ name |-> channels[ch],
              in   |-> CountMsgs({m \in msgs_channel : m.direction = "incoming"}),
              out  |-> CountMsgs({m \in msgs_channel : m.direction = "outgoing"}) ]]

(* faulty variant: the date of the stored timestamp, without conversion *)
local_date_utc(ts, z) == ts \div SecondsPerDay

(* ts_utc.astimezone(zone).date() of a naive (UTC) stored timestamp *)
local_date(ts, z) == (ts + utcoffset(z)) \div SecondsPerDay

(* faulty variant: the loop over the days stops before week_end *)
mensajes_por_dia_exclusive(week_start, week_end, f, t) ==
    LET msgs == msgs_in_week(f, t)
    IN  [i \in 1 .. (week_end - week_start) |->
            LET d == week_start + i - 1
                of_day == {m \in msgs : local_date(m.timestamp, zone) = d}
            IN  [ date |-> d,
                  in   |-> CountMsgs({m \in of_day : m.direction # "outgoing"}),
                  out  |-> CountMsgs({m \in of_day : m.direction = "outgoing"}) ]]

(* one entry per day week_start .. week_end; a message of msgs_in_week     *)
(* whose local date is one of them counts as "out" if outgoing, else "in"  *)
mensajes_por_dia(week_start, week_end, f, t) ==
    LET msgs == msgs_in_week(f, t)
    IN  [i \in 1 .. (week_end - week_start + 1) |->
            LET d == week_start + i - 1
                of_day == {m \in msgs : local_date(m.timestamp, zone) = d}
            IN  [ date |-> d,
                  in   |-> CountMsgs({m \in of_day : m.direction # "outgoing"}),
                  out  |-> CountMsgs({m \in of_day : m.direction = "outgoing"}) ]]

build_weekly_metrics(week_start, week_end) ==
    LET f == from_dt(week_start)
        t == to_dt(week_end)
        msgs == msgs_in_week(f, t)
    IN  [ ventana |-> [desde_lunes |-> week_start, hasta_domingo |-> week_end, zona |-> zone],
          frt_avg_min          |-> Round2Opt(weekly_frt_avg(f, t)),
          pct_respondido_24h   |-> Round2Opt(weekly_pct24h(f, t)),
          conversations        |-> Cardinality({m.conversation_id : m \in msgs}),
          mensajes_totales_in  |-> CountMsgs({m \in msgs : m.direction = "incoming"}),
          mensajes_totales_out |-> CountMsgs({m \in msgs : m.direction = "outgoing"}),
          por_canal            |-> por_canal(f, t),
          mensajes_por_dia     |-> mensajes_por_dia(week_start, week_end, f, t) ]

(* ------------------------------ comparator ----------------------------- *)
(* faulty variant: a missing value is taken as 0 (valor or 0) *)
calcular_cambio_porcentual_none_as_zero(valor_anterior, valor_actual) ==
    LET a == IF valor_anterior = None THEN 0 ELSE valor_anterior[1]
        b == IF valor_actual = None THEN 0 ELSE valor_actual[1]
    IN  IF a = 0
        THEN (IF b = 0 THEN Some(0) ELSE None)
        ELSE IF a > 0 THEN Some(Round2(100 * (b - a), a))
                      ELSE Some(Round2(100 * (a - b), 0 - a))

(* faulty variant: a previous value of 0 always gives a change of 0 *)
calcular_cambio_porcentual_zero(valor_anterior, valor_actual) ==
    IF valor_anterior = None \/ valor_actual = None THEN None
    ELSE LET a == valor_anterior[1]
             b == valor_actual[1]
         IN  IF a = 0 THEN Some(0)
             ELSE IF a > 0 THEN Some(Round2(100 * (b - a), a))
                           ELSE Some(Round2(100 * (a - b), 0 - a))

(* round(((actual - anterior) / anterior) * 100.0, 2), or None; both       *)
(* arguments are Optional and on the same scale                            *)
calcular_cambio_porcentual(valor_anterior, valor_actual) ==
    IF valor_anterior = None \/ valor_actual = None THEN None
    ELSE LET a == valor_anterior[1]
             b == valor_actual[1]
         IN  IF a = 0
             THEN (IF b = 0 THEN Some(0) ELSE None)
             ELSE IF a > 0 THEN Some(Round2(100 * (b - a), a))
                           ELSE Some(Round2(100 * (a - b), 0 - a))

comparison_entry(key, anterior, actual) ==
    [ key |-> key,
      semana_anterior   |-> anterior,
      semana_actual     |-> actual,
      cambio_porcentual |-> calcular_cambio_porcentual(anterior, actual) ]

(* faulty variant: the entry of the conversation counts is missing *)
build_weekly_comparison_four(semana_anterior, semana_actual) ==
    << comparison_entry("mensajes_totales_in",
            Some(semana_anterior.mensajes_totales_in), Some(semana_actual.mensajes_totales_in)),
       comparison_entry("mensajes_respondidos",
            Some(semana_anterior.mensajes_totales_out), Some(semana_actual.mensajes_totales_out)),
       comparison_entry("tiempo_promedio_respuesta_min",
            semana_anterior.frt_avg_min, semana_actual.frt_avg_min),
       comparison_entry("tasa_respuesta_24h",
            semana_anterior.pct_respondido_24h, semana_actual.pct_respondido_24h) >>

build_weekly_comparison(semana_anterior, semana_actual) ==
    << comparison_entry("mensajes_totales_in",
            Some(semana_anterior.mensajes_totales_in), Some(semana_actual.mensajes_totales_in)),
       comparison_entry("mensajes_respondidos",
            Some(semana_anterior.mensajes_totales_out), Some(semana_actual.mensajes_totales_out)),
       comparison_entry("tiempo_promedio_respuesta_min",
            semana_anterior.frt_avg_min, semana_actual.frt_avg_min),
       comparison_entry("tasa_respuesta_24h",
            semana_anterior.pct_respondido_24h, semana_actual.pct_respondido_24h),
       comparison_entry("conversaciones",
            Some(semana_anterior.conversations), Some(semana_actual.conversations)) >>

(* ----------------------------- orchestrator ---------------------------- *)
(* the order in which dashboard() inserts the fields into the OrderedDict r *)
dashboard_fields == <<"general", "semana_anterior", "semana_actual", "comparativa_semanal">>

dashboard(t) ==
    LET semana_anterior == build_weekly_metrics(last_week_start(t), last_week_end(t))
        semana_actual   == build_weekly_metrics(this_week_start(t), this_week_end(t))
    IN  [ general             |-> build_general_metrics,
          semana_anterior     |-> semana_anterior,
          semana_actual       |-> semana_actual,
          comparativa_semanal |-> build_weekly_comparison(semana_anterior, semana_actual) ]

(* dashboard() raises: ZoneInfo("UTC") in the except handler of the zone   *)
(* lookup, or ZoneInfo("UTC") for the naive timestamp of a message of one  *)
(* of the two weeks                                                        *)
dashboard_raises(t) ==
    \/ ZoneInfoRaises(BuenosAires) /\ ZoneInfoRaises("UTC")
    \/ /\ ZoneInfoRaises("UTC")
       /\ \/ msgs_in_week(from_dt(last_week_start(t)), to_dt(last_week_end(t))) # {}
          \/ msgs_in_week(from_dt(this_week_start(t)), to_dt(this_week_end(t))) # {}

(* ------------------------------- actions ------------------------------- *)
Init ==
    /\ channels = DefaultChannels
    /\ conversations = <<>>
    /\ messages = EmptyBag
    /\ pc = "idle"
    /\ today = RefMonday
    /\ r = None
    /\ tzdata = ZoneKeys
    /\ hidden = [conversations |-> <<>>, messages |-> EmptyBag]
    /\ isolation = "REPEATABLE READ"
    /\ now = WeekEdge

(* MessageService._get_or_create_conversation(channel, participant): a new *)
(* conversation row unless the channel already has one of the participant  *)
get_or_create_conversation ==
    /\ pc = "idle"
    /\ \E ch \in RequestChannels, p \in Participants :
          /\ \A c \in ConvIds : ~ (/\ conversations[c].channel_id = ch
                                   /\ conversations[c].participant_identifier = p)
          /\ conversations' = Append(conversations,
                                     [channel_id |-> ch, participant_identifier |-> p])
    /\ UNCHANGED <<channels, messages, pc, today, r, tzdata, hidden, isolation, now>>

(* POST /messages: a new message row of an existing conversation *)
create_message ==
    /\ pc = "idle"
    /\ BagCardinality(messages) < MaxMsgs
    /\ \E c \in ConvIds, d \in Directions, ts \in TimeStamps :
          messages' = messages (+) SetToBag({[conversation_id |-> c,
                                              direction |-> d,
                                              timestamp |-> ts]})
    /\ UNCHANGED <<channels, conversations, pc, today, r, tzdata, hidden, isolation, now>>

(* faulty variant: the request also deletes the messages older than the    *)
(* current week                                                            *)
get_dashboard_pruning ==
    /\ pc = "idle"
    /\ \E t \in Days :
          /\ ~ dashboard_raises(t)
          /\ today' = t
          /\ r' = Some(dashboard(t))
          /\ messages' = [m \in {x \in BagToSet(messages) :
                                    x.timestamp >= from_dt(this_week_start(t))}
                             |-> messages[m]]
    /\ pc' = "done"
    /\ UNCHANGED <<channels, conversations, tzdata, hidden, isolation, now>>

(* GET /analytics/dashboard *)
get_dashboard ==
    /\ pc = "idle"
    /\ \E t \in Days :
          /\ ~ dashboard_raises(t)
          /\ today' = t
          /\ r' = Some(dashboard(t))
    /\ pc' = "done"
    /\ UNCHANGED <<channels, conversations, messages, tzdata, hidden, isolation, now>>

(* GET /analytics/dashboard when dashboard() raises: the endpoint logs the *)
(* exception and raises it again, no document is returned                  *)
get_dashboard_raises ==
    /\ pc = "idle"
    /\ \E t \in Days :
          /\ dashboard_raises(t)
          /\ today' = t
    /\ r' = None
    /\ pc' = "failed"
    /\ UNCHANGED <<channels, conversations, messages, tzdata, hidden, isolation, now>>

(* the response is delivered and the request's locals are gone *)
Return ==
    /\ pc \in {"done", "failed"}
    /\ pc' = "idle"
    /\ r' = None
    /\ today' = RefMonday
    /\ UNCHANGED <<channels, conversations, messages, tzdata, hidden, isolation, now>>

Next == get_or_create_conversation \/ create_message \/ get_dashboard \/ Return

Spec == Init /\ [][Next]_vars

(* ---- rows that do not come from the endpoints: the tables are shared   *)
(* with the channel services, and the foreign keys of models.py hold only  *)
(* as far as the MySQL engine enforces them                                *)
(* a conversation id that no conversation row has *)
DanglingConversationId == Cardinality(RequestChannels \X Participants) + 1

(* a message row whose conversation_id has no conversation row *)
import_orphan_message ==
    /\ pc = "idle"
    /\ BagCardinality(messages) < MaxMsgs
    /\ \E d \in Directions, ts \in {WeekEdge - 1, WeekEdge} :
          messages' = messages (+) SetToBag({[conversation_id |-> DanglingConversationId,
                                              direction |-> d,
                                              timestamp |-> ts]})
    /\ UNCHANGED <<channels, conversations, pc, today, r, tzdata, hidden, isolation, now>>

NextOrphan ==
    \/ get_or_create_conversation
    \/ create_message
    \/ import_orphan_message
    \/ get_dashboard
    \/ Return

SpecOrphan == Init /\ [][NextOrphan]_vars

(* the host may lack the time zone database, or part of it *)
InitTz ==
    /\ channels = DefaultChannels
    /\ conversations = <<>>
    /\ messages = EmptyBag
    /\ pc = "idle"
    /\ today = RefMonday
    /\ r = None
    /\ tzdata \in SUBSET ZoneKeys
    /\ hidden = [conversations |-> <<>>, messages |-> EmptyBag]
    /\ isolation = "REPEATABLE READ"
    /\ now = WeekEdge

NextTz ==
    \/ get_or_create_conversation
    \/ create_message
    \/ get_dashboard
    \/ get_dashboard_raises
    \/ Return

SpecTz == InitTz /\ [][NextTz]_vars

(* ---- the dashboard request query by query, with the requests of other  *)
(* clients in between. The queries of dashboard() run in the one           *)
(* transaction the session opens with its first query; what they see of    *)
(* rows committed meanwhile is decided by the isolation level of the       *)
(* server, which create_engine() leaves at the server's setting            *)
Restrict(rec, keys) == [k \in keys |-> rec[k]]

Computing == {"frt_all", "por_canal_total", "prev_msgs", "prev_rest", "cur_msgs", "cur_rest"}

NoRows == [conversations |-> <<>>, messages |-> EmptyBag]

(* dashboard() up to the first query of _build_general_metrics: total_conv *)
query_total_conv ==
    /\ pc = "idle"
    /\ r' = Some([total_conv |-> Len(conversations)])
    /\ pc' = "frt_all"
    /\ UNCHANGED <<channels, conversations, messages, today, tzdata, hidden, isolation, now>>

(* _calculate_frt_all and the two counts of the messages by direction *)
query_frt_and_totals ==
    /\ pc = "frt_all"
    /\ r' = Some(r[1] @@ [ok24 |-> general_ok24]
                     @@ Restrict(build_general_metrics,
                                 {"frt_avg_min", "mensajes_totales_in", "mensajes_totales_out"}))
    /\ pc' = "por_canal_total"
    /\ UNCHANGED <<channels, conversations, messages, today, tzdata, hidden, isolation, now>>

(* the counts per channel; the general snapshot is complete *)
query_por_canal_total ==
    /\ pc = "por_canal_total"
    /\ r' = Some([general |->
                    [ frt_avg_min          |-> r[1].frt_avg_min,
                      pct_respondido_24h   |-> IF r[1].total_conv = 0 THEN None
                                               ELSE Some(Round2(100 * r[1].ok24, r[1].total_conv)),
                      conversations_total  |-> r[1].total_conv,
                      mensajes_totales_in  |-> r[1].mensajes_totales_in,
                      mensajes_totales_out |-> r[1].mensajes_totales_out,
                      por_canal_total      |-> por_canal_total ]])
    /\ pc' = "prev_msgs"
    /\ UNCHANGED <<channels, conversations, messages, today, tzdata, hidden, isolation, now>>

(* _build_weekly_metrics: msgs_in_week and what is computed from that list *)
query_msgs_in_week ==
    /\ pc \in {"prev_msgs", "cur_msgs"}
    /\ LET w == IF pc = "prev_msgs"
                THEN build_weekly_metrics(last_week_start(today), last_week_end(today))
                ELSE build_weekly_metrics(this_week_start(today), this_week_end(today))
       IN  r' = Some(r[1] @@ [week |-> Restrict(w, {"conversations", "mensajes_totales_in",
                                                    "mensajes_totales_out", "mensajes_por_dia"})])
    /\ pc' = IF pc = "prev_msgs" THEN "prev_rest" ELSE "cur_rest"
    /\ UNCHANGED <<channels, conversations, messages, today, tzdata, hidden, isolation, now>>

(* _build_weekly_metrics: the queries per channel, of the weekly FRT and   *)
(* of the weekly SLA; after the current week, the comparison               *)
query_week_rest ==
    /\ pc \in {"prev_rest", "cur_rest"}
    /\ LET w == IF pc = "prev_rest"
                THEN build_weekly_metrics(last_week_start(today), last_week_end(today))
                ELSE build_weekly_metrics(this_week_start(today), this_week_end(today))
           week == r[1].week @@ Restrict(w, {"ventana", "frt_avg_min",
                                             "pct_respondido_24h", "por_canal"})
       IN  IF pc = "prev_rest"
           THEN /\ r' = Some([general |-> r[1].general, semana_anterior |-> week])
                /\ pc' = "cur_msgs"
           ELSE /\ r' = Some([general             |-> r[1].general,
                              semana_anterior     |-> r[1].semana_anterior,
                              semana_actual       |-> week,
                              comparativa_semanal |->
                                  build_weekly_comparison(r[1].semana_anterior, week)])
                /\ pc' = "done"
    /\ UNCHANGED <<channels, conversations, messages, today, tzdata, hidden, isolation, now>>

(* POST /messages of another client, committed while the dashboard request *)
(* is computing                                                            *)
create_message_concurrent ==
    /\ pc \in Computing
    /\ BagCardinality(messages) + BagCardinality(hidden.messages) < MaxMsgs
    /\ \E c \in ConvIds, d \in Directions, ts \in {WeekEdge - 1, WeekEdge} :
          LET row == SetToBag({[conversation_id |-> c, direction |-> d, timestamp |-> ts]})
          IN  IF isolation = "REPEATABLE READ"
              THEN /\ hidden' = [hidden EXCEPT !.messages = @ (+) row]
                   /\ UNCHANGED messages
              ELSE /\ messages' = messages (+) row
                   /\ UNCHANGED hidden
    /\ UNCHANGED <<channels, conversations, pc, today, r, tzdata, isolation, now>>

(* a conversation created for another client while the dashboard request   *)
(* is computing                                                            *)
get_or_create_conversation_concurrent ==
    /\ pc \in Computing
    /\ \E ch \in RequestChannels, p \in Participants :
          LET all == conversations \o hidden.conversations
              row == [channel_id |-> ch, participant_identifier |-> p]
          IN  /\ \A c \in DOMAIN all : all[c] # row
              /\ IF isolation = "REPEATABLE READ"
                 THEN /\ hidden' = [hidden EXCEPT !.conversations = Append(@, row)]
                      /\ UNCHANGED conversations
                 ELSE /\ conversations' = Append(conversations, row)
                      /\ UNCHANGED hidden
    /\ UNCHANGED <<channels, messages, pc, today, r, tzdata, isolation, now>>

(* the response is delivered; get_db() closes the session, and the next    *)
(* transaction sees every committed row                                    *)
close_session ==
    /\ pc = "done"
    /\ pc' = "idle"
    /\ r' = None
    /\ conversations' = conversations \o hidden.conversations
    /\ messages' = messages (+) hidden.messages
    /\ hidden' = NoRows
    /\ UNCHANGED <<channels, today, tzdata, isolation, now>>

InitConc ==
    /\ channels = DefaultChannels
    /\ conversations = <<>>
    /\ messages = EmptyBag
    /\ pc = "idle"
    /\ today = RefMonday
    /\ r = None
    /\ tzdata = ZoneKeys
    /\ hidden = NoRows
    /\ isolation \in {"REPEATABLE READ", "READ COMMITTED"}
    /\ now = WeekEdge

NextConc ==
    \/ get_or_create_conversation
    \/ create_message
    \/ query_total_conv
    \/ query_frt_and_totals
    \/ query_por_canal_total
    \/ query_msgs_in_week
    \/ query_week_rest
    \/ create_message_concurrent
    \/ get_or_create_conversation_concurrent
    \/ close_session

SpecConc == InitConc /\ [][NextConc]_vars

(* ---- messages stamped by the clock: the inquiries the channel services *)
(* report as they arrive and the replies sent through POST /send. The rows *)
(* written here also carry created_at, the column default (utcnow)         *)

(* datetime.now(tz): an aware datetime, the instant and the UTC offset of  *)
(* its wall-clock fields                                                   *)
datetime_now(offset) == [instant |-> now, offset |-> offset]

UTC == 0
argentina_tz == -3 * 3600

(* what the DateTime column, which has no time zone, keeps of an aware     *)
(* datetime: its wall-clock fields                                         *)
column_DateTime(dt) == dt.instant + dt.offset

(* MessageService.create_message: one row with the fields it is given *)
service_create_message(message_data) ==
    messages (+) SetToBag({[ conversation_id |-> message_data.conversation_id,
                             direction       |-> message_data.direction,
                             timestamp       |-> column_DateTime(message_data.timestamp),
                             created_at      |-> now ]})

(* POST /messages by a channel service: an inquiry that has just arrived,  *)
(* with its instant in UTC                                                 *)
receive_message ==
    /\ pc = "idle"
    /\ BagCardinality(messages) < MaxMsgs
    /\ \E c \in ConvIds :
          messages' = service_create_message([ conversation_id |-> c,
                                               direction       |-> "incoming",
                                               timestamp       |-> datetime_now(UTC) ])
    /\ UNCHANGED <<channels, conversations, pc, today, r, tzdata, hidden, isolation, now>>

(* POST /send: after the call of the channel service the outgoing message  *)
(* is stored, in the conversation found or created for the recipient (a    *)
(* request that is rejected or whose call raises stores nothing)           *)
send_message ==
    /\ pc = "idle"
    /\ BagCardinality(messages) < MaxMsgs
    /\ \E ch \in RequestChannels, p \in Participants :
          LET row          == [channel_id |-> ch, participant_identifier |-> p]
              found        == {c \in ConvIds : conversations[c] = row}
              conversation == IF found = {} THEN Len(conversations) + 1
                              ELSE CHOOSE c \in found : TRUE
              current_time == datetime_now(argentina_tz)
          IN  /\ conversations' = IF found = {} THEN Append(conversations, row)
                                  ELSE conversations
              /\ messages' = service_create_message([ conversation_id |-> conversation,
                                                      direction       |-> "outgoing",
                                                      timestamp       |-> current_time ])
    /\ UNCHANGED <<channels, pc, today, r, tzdata, hidden, isolation, now>>

(* an hour passes *)
tick ==
    /\ now < WeekEdge + MaxHours * 3600
    /\ now' = now + 3600
    /\ UNCHANGED <<channels, conversations, messages, pc, today, r, tzdata, hidden, isolation>>

NextSend ==
    \/ get_or_create_conversation
    \/ receive_message
    \/ send_message
    \/ tick
    \/ get_dashboard
    \/ Return

SpecSend == Init /\ [][NextSend]_vars

TypeOK ==
    /\ pc \in {"idle", "done", "failed"} \cup Computing
    /\ (pc \in {"idle", "failed"}) <=> (r = None)
    /\ isolation \in {"REPEATABLE READ", "READ COMMITTED"}
    /\ tzdata \subseteq ZoneKeys
    /\ BagCardinality(messages) <= MaxMsgs
    /\ Len(conversations) <= Cardinality(RequestChannels \X Participants)

(* ======================= properties of the dashboard =================== *)
(* the notions the properties are stated with, taken from the rows of the  *)
(* store themselves                                                        *)
Rows == BagToSet(messages)

HasMsg(c, d) == \E m \in Rows : m.conversation_id = c /\ m.direction = d

(* ts is the minimum timestamp over the messages of c with direction d *)
IsFirst(c, d, ts) ==
    /\ \E m \in Rows : m.conversation_id = c /\ m.direction = d /\ m.timestamp = ts
    /\ \A m \in Rows : (m.conversation_id = c /\ m.direction = d) => ts <= m.timestamp

FirstAt(c, d) == CHOOSE ts \in TimeStamps : IsFirst(c, d, ts)

Answered(c) == HasMsg(c, "incoming") /\ HasMsg(c, "outgoing")

(* seconds from the first incoming to the first outgoing message *)
Gap(c) == FirstAt(c, "outgoing") - FirstAt(c, "incoming")

Done == pc = "done"
Doc == r[1]

(* the UTC interval [from, to) of the window a weekly snapshot reports *)
WinFrom(w) == w.ventana.desde_lunes * 86400 + 3 * 3600
WinTo(w)   == (w.ventana.hasta_domingo + 1) * 86400 + 3 * 3600

FirstInIn(w) ==
    {c \in ConvIds : /\ HasMsg(c, "incoming")
                     /\ FirstAt(c, "incoming") >= WinFrom(w)
                     /\ FirstAt(c, "incoming") < WinTo(w)}

SameRatio(x, n, d) == x # None /\ x[1].num * d = n * x[1].den

(* C1: the FRT of a conversation is null iff it has no incoming or no      *)
(* outgoing message, and every conversation of the store, also one without *)
(* messages, has an entry in the result of _calculate_frt_all              *)
C1_FrtNullIffUnanswered ==
    /\ DOMAIN calculate_frt_all = ConvIds
    /\ \A c \in ConvIds :
          (calculate_frt_all[c] = None)
            <=> (~ HasMsg(c, "incoming") \/ ~ HasMsg(c, "outgoing"))

C1_Witness ==
    /\ Done
    /\ \E c1, c2 \in ConvIds :
          /\ ~ HasMsg(c1, "incoming") /\ ~ HasMsg(c1, "outgoing")
          /\ calculate_frt_all[c1] = None
          /\ HasMsg(c2, "incoming") /\ ~ HasMsg(c2, "outgoing")
          /\ calculate_frt_all[c2] = None
          /\ Doc.general.conversations_total = 2
          /\ Doc.general.frt_avg_min = None

(* C2: for a conversation with an incoming and an outgoing message the FRT *)
(* is floor((t_out - t_in) / 60), t_in and t_out being the minimum         *)
(* timestamps of its incoming and of its outgoing messages                 *)
C2_FrtIsFloorOfFirstGap ==
    \A c \in ConvIds :
        Answered(c) =>
            /\ calculate_frt_all[c] # None
            /\ 60 * calculate_frt_all[c][1] <= Gap(c)
            /\ Gap(c) < 60 * calculate_frt_all[c][1] + 60

C2_Witness ==
    /\ Done
    /\ \E c \in ConvIds :
          /\ Answered(c)
          /\ \E m \in Rows : /\ m.conversation_id = c /\ m.direction = "outgoing"
                             /\ m.timestamp > FirstAt(c, "outgoing")
          /\ Gap(c) = 1440 * 60 + 59
          /\ calculate_frt_all[c] = Some(1440)
          /\ Doc.general.frt_avg_min = Some(144000)

(* the conversations answered less than 1441 minutes after they arrived *)
MetSla == {c \in ConvIds : Answered(c) /\ Gap(c) < 1441 * 60}

(* C3: a conversation meets the SLA iff its FRT is <= 1440 minutes, that   *)
(* is iff its gap is below 1441 minutes, in the general count and in the   *)
(* count of each week, and the reported rates are built on those counts    *)
C3_SlaBoundary ==
    Done =>
        /\ general_ok24 = Cardinality(MetSla)
        /\ Doc.general.pct_respondido_24h # None =>
              Doc.general.pct_respondido_24h
                 = Some(Round2(100 * Cardinality(MetSla), Len(conversations)))
        /\ \A w \in {Doc.semana_anterior, Doc.semana_actual} :
              /\ weekly_ok24(WinFrom(w), WinTo(w)) = Cardinality(MetSla \cap FirstInIn(w))
              /\ w.pct_respondido_24h # None =>
                    w.pct_respondido_24h
                       = Some(Round2(100 * Cardinality(MetSla \cap FirstInIn(w)),
                                     Cardinality(FirstInIn(w))))

C3_Witness ==
    /\ Done
    /\ \E c \in ConvIds :
          /\ Answered(c) /\ Gap(c) = 1440 * 60 + 59
          /\ calculate_frt_all[c] = Some(1440)
    /\ Len(conversations) = 1
    /\ Doc.general.pct_respondido_24h = Some(10000)
    /\ Doc.semana_anterior.pct_respondido_24h = Some(10000)

(* the other side of the boundary: a gap of exactly 1441 minutes is not met *)
C3_Reach1441 ==
    /\ Done
    /\ \E c \in ConvIds :
          /\ Answered(c) /\ Gap(c) = 1441 * 60
          /\ calculate_frt_all[c] = Some(1441)
    /\ Len(conversations) = 1
    /\ Doc.general.pct_respondido_24h = Some(0)
    /\ Doc.semana_anterior.pct_respondido_24h = Some(0)

(* C4: the general rate is 100 * (conversations with FRT non-null and      *)
(* <= 1440) / (all conversations of the store), null exactly when the      *)
(* store has no conversation; the document reports it rounded to 2 places  *)
C4_GeneralPctOverAllConversations ==
    LET met   == {c \in ConvIds : /\ calculate_frt_all[c] # None
                                  /\ calculate_frt_all[c][1] <= 1440}
        total == Len(conversations)
    IN  Done =>
          /\ (general_pct24h = None) <=> (total = 0)
          /\ (Doc.general.pct_respondido_24h = None) <=> (total = 0)
          /\ total > 0 =>
                /\ SameRatio(general_pct24h, 100 * Cardinality(met), total)
                /\ Doc.general.pct_respondido_24h
                      = Some(Round2(100 * Cardinality(met), total))
          /\ Doc.general.conversations_total = total

C4_Witness ==
    /\ Done
    /\ \E a, b \in ConvIds :
          /\ calculate_frt_all[a] = Some(1440)
          /\ HasMsg(b, "incoming") /\ ~ HasMsg(b, "outgoing")
    /\ Len(conversations) = 2
    /\ Doc.general.frt_avg_min = Some(144000)
    /\ Doc.general.pct_respondido_24h = Some(5000)

(* avg is the mean of the FRT values of the conversations K, null if none *)
MeanOf(avg, K) ==
    /\ \A c \in K : calculate_frt_all[c] # None
    /\ (avg = None) <=> (K = {})
    /\ K # {} => SameRatio(avg, SumF([c \in K |-> calculate_frt_all[c][1]], K),
                           Cardinality(K))

ReportedMeanOf(field, K) ==
    /\ (field = None) <=> (K = {})
    /\ K # {} => field = Some(Round2(SumF([c \in K |-> calculate_frt_all[c][1]], K),
                                     Cardinality(K)))

(* the conversations with a non-null FRT that the week's list is built    *)
(* from: those with an outgoing message in the week's interval             *)
WeeklyScope(w) ==
    {c \in ConvIds :
        /\ calculate_frt_all[c] # None
        /\ \E m \in Rows : /\ m.conversation_id = c /\ m.direction = "outgoing"
                           /\ m.timestamp >= WinFrom(w) /\ m.timestamp < WinTo(w)}

C6_WeeklyFrtByFirstOutgoing ==
    Done =>
        \A w \in {Doc.semana_anterior, Doc.semana_actual} :
            DOMAIN calculate_frt_weekly(WinFrom(w), WinTo(w))
              = {c \in ConvIds : /\ Answered(c)
                                 /\ FirstAt(c, "outgoing") >= WinFrom(w)
                                 /\ FirstAt(c, "outgoing") < WinTo(w)}

(* C7: the weekly rate is 100 * (conversations whose first incoming message *)
(* is in the week and whose all-time FRT is non-null and <= 1440) /         *)
(* (conversations whose first incoming message is in the week), whatever    *)
(* the week of the answer, and null when no conversation arrived that week  *)
C7_WeeklyPctOverArrivals ==
    Done =>
        \A w \in {Doc.semana_anterior, Doc.semana_actual} :
            LET arrived == FirstInIn(w)
                met == {c \in arrived : /\ calculate_frt_all[c] # None
                                        /\ calculate_frt_all[c][1] <= 1440}
                pct == weekly_pct24h(WinFrom(w), WinTo(w))
            IN  /\ (pct = None) <=> (arrived = {})
                /\ (w.pct_respondido_24h = None) <=> (arrived = {})
                /\ arrived # {} =>
                      /\ SameRatio(pct, 100 * Cardinality(met), Cardinality(arrived))
                      /\ w.pct_respondido_24h
                            = Some(Round2(100 * Cardinality(met), Cardinality(arrived)))

C7_Witness ==
    /\ Done
    /\ \E c \in ConvIds :
          /\ Answered(c)
          /\ c \in FirstInIn(Doc.semana_anterior)
          /\ \E m \in Rows : /\ m.conversation_id = c /\ m.direction = "incoming"
                             /\ m.timestamp >= WinFrom(Doc.semana_actual)
          /\ FirstAt(c, "outgoing") >= WinFrom(Doc.semana_actual)
          /\ calculate_frt_all[c] = Some(0)
    /\ Doc.semana_anterior.pct_respondido_24h = Some(10000)
    /\ Doc.semana_actual.pct_respondido_24h = None

(* C8: both windows span 6 days from start to end, and the previous week   *)
(* starts 7 days and ends 1 day before the start of the current week       *)
C8_WindowLengths ==
    Done =>
        LET cur  == Doc.semana_actual.ventana
            prev == Doc.semana_anterior.ventana
        IN  /\ cur.hasta_domingo - cur.desde_lunes = 6
            /\ prev.hasta_domingo - prev.desde_lunes = 6
            /\ prev.desde_lunes = cur.desde_lunes - 7
            /\ prev.hasta_domingo = cur.desde_lunes - 1
            /\ cur.desde_lunes = this_week_start(today)
            /\ cur.hasta_domingo = this_week_end(today)
            /\ prev.desde_lunes = last_week_start(today)
            /\ prev.hasta_domingo = last_week_end(today)

C8_Witness ==
    /\ Done
    /\ today = RefMonday + 3
    /\ Doc.semana_actual.ventana.desde_lunes = RefMonday
    /\ Doc.semana_actual.ventana.hasta_domingo = RefMonday + 6
    /\ Doc.semana_anterior.ventana.desde_lunes = RefMonday - 7
    /\ Doc.semana_anterior.ventana.hasta_domingo = RefMonday - 1

(* the day of the week of an ordinal: ordinal 1, 0001-01-01, is a Monday *)
IsMonday(d) == d % 7 = 1
IsSunday(d) == d % 7 = 0

(* C9: both windows start on a Monday and end on a Sunday, and the current *)
(* week contains today, for every reference date                           *)
C9_MondayToSundayAroundToday ==
    Done =>
        LET cur  == Doc.semana_actual.ventana
            prev == Doc.semana_anterior.ventana
        IN  /\ IsMonday(cur.desde_lunes) /\ IsSunday(cur.hasta_domingo)
            /\ IsMonday(prev.desde_lunes) /\ IsSunday(prev.hasta_domingo)
            /\ cur.desde_lunes <= today /\ today <= cur.hasta_domingo

C9_Witness ==
    /\ Done
    /\ IsSunday(today)
    /\ Doc.semana_actual.ventana.hasta_domingo = today
    /\ Doc.semana_actual.ventana.desde_lunes = today - 6

(* C10: the intervals of the two weeks are adjacent and half-open: the     *)
(* previous one ends where the current one starts, and a message with      *)
(* timestamp in [previous.from, current.to) is selected for exactly one    *)
(* week: from is included, to is excluded                                  *)
C10_AdjacentHalfOpenWeeks ==
    Done =>
        LET pf == from_dt(last_week_start(today))
            pt == to_dt(last_week_end(today))
            cf == from_dt(this_week_start(today))
            ct == to_dt(this_week_end(today))
            prev == Doc.semana_anterior
            cur  == Doc.semana_actual
        IN  /\ pt = cf
            /\ pf = WinFrom(prev) /\ ct = WinTo(cur)
            /\ \A m \in Rows :
                  /\ (pf <= m.timestamp /\ m.timestamp < cf)
                        <=> (m \in msgs_in_week(pf, pt))
                  /\ (cf <= m.timestamp /\ m.timestamp < ct)
                        <=> (m \in msgs_in_week(cf, ct))
                  /\ ~ (m \in msgs_in_week(pf, pt) /\ m \in msgs_in_week(cf, ct))
            /\ prev.mensajes_totales_in + prev.mensajes_totales_out
                 + cur.mensajes_totales_in + cur.mensajes_totales_out
                 = CountMsgs({m \in BagToSet(messages) : pf <= m.timestamp /\ m.timestamp < ct})

C10_Witness ==
    /\ Done
    /\ \E m1, m2, m3 \in Rows :
          /\ m1.timestamp = WinFrom(Doc.semana_actual)
          /\ m2.timestamp = WinTo(Doc.semana_actual)
          /\ m3.timestamp = WinFrom(Doc.semana_actual) - 1
    /\ Doc.semana_anterior.mensajes_totales_in + Doc.semana_anterior.mensajes_totales_out = 1
    /\ Doc.semana_actual.mensajes_totales_in + Doc.semana_actual.mensajes_totales_out = 1

(* every message has a conversation of the store, whose channel is a      *)
(* channel of the store                                                    *)
Resolvable ==
    \A m \in Rows : /\ m.conversation_id \in ConvIds
                    /\ conversations[m.conversation_id].channel_id \in 1 .. Len(channels)

SumIn(breakdown)  == SumF([ch \in DOMAIN breakdown |-> breakdown[ch].in], DOMAIN breakdown)
SumOut(breakdown) == SumF([ch \in DOMAIN breakdown |-> breakdown[ch].out], DOMAIN breakdown)

(* C11: when every message's conversation and its channel are resolvable,  *)
(* in the general and in each weekly snapshot the 'in' counts of the       *)
(* per-channel breakdown add up to mensajes_totales_in and the 'out'       *)
(* counts to mensajes_totales_out: no message is counted twice or dropped  *)
C11_ChannelBreakdownSumsToTotals ==
    (Done /\ Resolvable) =>
        /\ SumIn(Doc.general.por_canal_total) = Doc.general.mensajes_totales_in
        /\ SumOut(Doc.general.por_canal_total) = Doc.general.mensajes_totales_out
        /\ \A w \in {Doc.semana_anterior, Doc.semana_actual} :
              /\ SumIn(w.por_canal) = w.mensajes_totales_in
              /\ SumOut(w.por_canal) = w.mensajes_totales_out

C11_Witness ==
    /\ Done /\ Resolvable
    /\ Doc.general.mensajes_totales_in = 2
    /\ Doc.general.mensajes_totales_out = 1
    /\ Doc.general.por_canal_total[1].in = 1
    /\ Doc.general.por_canal_total[2].in = 1
    /\ Doc.semana_anterior.mensajes_totales_in = 1
    /\ Doc.semana_anterior.por_canal[2].in = 1
    /\ Doc.semana_actual.mensajes_totales_in = 1
    /\ Doc.semana_actual.mensajes_totales_out = 1
    /\ Doc.semana_actual.por_canal[1] = [name |-> channels[1], in |-> 1, out |-> 1]

ChannelNames == {channels[ch] : ch \in DOMAIN channels}
Keys(breakdown) == {breakdown[k].name : k \in DOMAIN breakdown}
Entry(breakdown, name) == CHOOSE e \in {breakdown[k] : k \in DOMAIN breakdown} : e.name = name

(* the messages of the conversations of the channel called name *)
RowsOf(name) ==
    {m \in Rows : /\ m.conversation_id \in ConvIds
                  /\ channels[conversations[m.conversation_id].channel_id] = name}

(* C12: the keys of the per-channel breakdown, general and weekly, are the *)
(* names of all channels of the store, one entry each, and a channel with  *)
(* no message (in the week, for a weekly snapshot) has in = 0 and out = 0  *)
C12_EveryChannelPresent ==
    Done =>
        /\ Keys(Doc.general.por_canal_total) = ChannelNames
        /\ Cardinality(DOMAIN Doc.general.por_canal_total) = Cardinality(ChannelNames)
        /\ \A n \in ChannelNames :
              RowsOf(n) = {} =>
                 /\ Entry(Doc.general.por_canal_total, n).in = 0
                 /\ Entry(Doc.general.por_canal_total, n).out = 0
        /\ \A w \in {Doc.semana_anterior, Doc.semana_actual} :
              /\ Keys(w.por_canal) = ChannelNames
              /\ Cardinality(DOMAIN w.por_canal) = Cardinality(ChannelNames)
              /\ \A n \in ChannelNames :
                    (\A m \in RowsOf(n) : m.timestamp < WinFrom(w) \/ m.timestamp >= WinTo(w))
                      => /\ Entry(w.por_canal, n).in = 0
                         /\ Entry(w.por_canal, n).out = 0

C12_Witness ==
    /\ Done
    /\ RowsOf("whatsapp") # {}
    /\ RowsOf("gmail") = {} /\ RowsOf("instagram") = {}
    /\ Entry(Doc.general.por_canal_total, "whatsapp").in = 1
    /\ Entry(Doc.general.por_canal_total, "gmail") = [name |-> "gmail", in |-> 0, out |-> 0]
    /\ Entry(Doc.general.por_canal_total, "instagram") = [name |-> "instagram", in |-> 0, out |-> 0]
    /\ Entry(Doc.semana_actual.por_canal, "whatsapp").in = 1
    /\ Entry(Doc.semana_anterior.por_canal, "whatsapp") = [name |-> "whatsapp", in |-> 0, out |-> 0]

(* the messages of the local day d: from its midnight in UTC-3, 03:00 UTC, *)
(* to the next one                                                         *)
TrafficOf(d) ==
    {m \in Rows : /\ m.timestamp >= d * 86400 + 3 * 3600
                  /\ m.timestamp < (d + 1) * 86400 + 3 * 3600}

(* C13: mensajes_por_dia of a weekly snapshot has exactly 7 entries, for   *)
(* the consecutive dates week_start .. week_end in ascending order, and a  *)
(* day without traffic has in = 0 and out = 0, whatever the store holds    *)
C13_SevenDayEntries ==
    Done =>
        \A w \in {Doc.semana_anterior, Doc.semana_actual} :
            /\ DOMAIN w.mensajes_por_dia = 1 .. 7
            /\ w.mensajes_por_dia[1].date = w.ventana.desde_lunes
            /\ w.mensajes_por_dia[7].date = w.ventana.hasta_domingo
            /\ \A i \in 1 .. 6 :
                  w.mensajes_por_dia[i + 1].date = w.mensajes_por_dia[i].date + 1
            /\ \A i \in 1 .. 7 :
                  TrafficOf(w.mensajes_por_dia[i].date) = {} =>
                      /\ w.mensajes_por_dia[i].in = 0
                      /\ w.mensajes_por_dia[i].out = 0

C13_Witness ==
    /\ Done
    /\ Rows # {}
    /\ \A m \in Rows : m.timestamp = WinFrom(Doc.semana_actual)
    /\ Len(Doc.semana_actual.mensajes_por_dia) = 7
    /\ Doc.semana_actual.mensajes_por_dia[1]
          = [date |-> Doc.semana_actual.ventana.desde_lunes, in |-> 1, out |-> 1]
    /\ \A i \in 2 .. 7 :
          /\ Doc.semana_actual.mensajes_por_dia[i].in = 0
          /\ Doc.semana_actual.mensajes_por_dia[i].out = 0
    /\ \A i \in 1 .. 7 :
          /\ Doc.semana_anterior.mensajes_por_dia[i].date = Doc.semana_actual.ventana.desde_lunes - 8 + i
          /\ Doc.semana_anterior.mensajes_por_dia[i].in = 0
          /\ Doc.semana_anterior.mensajes_por_dia[i].out = 0

(* C14: a message selected for a week is counted in mensajes_por_dia under *)
(* the local (UTC-3) calendar date of its timestamp read as UTC: the entry *)
(* of day D counts the messages from 03:00 UTC of D to 03:00 UTC of D + 1, *)
(* so 03:00 UTC of D is counted under D and 02:59 UTC of D under D - 1,    *)
(* and every selected message is counted under one day                     *)
C14_CountedUnderLocalDate ==
    Done =>
        \A w \in {Doc.semana_anterior, Doc.semana_actual} :
            /\ \A i \in DOMAIN w.mensajes_por_dia :
                  LET e == w.mensajes_por_dia[i]
                  IN  /\ e.in + e.out = CountMsgs(TrafficOf(e.date))
                      /\ e.out = CountMsgs({m \in TrafficOf(e.date) : m.direction = "outgoing"})
            /\ SumIn(w.mensajes_por_dia) + SumOut(w.mensajes_por_dia)
                  = CountMsgs({m \in Rows : m.timestamp >= WinFrom(w) /\ m.timestamp < WinTo(w)})

C14_Witness ==
    /\ Done
    /\ LET D == Doc.semana_actual.ventana.desde_lunes
       IN  /\ \E m \in Rows : m.timestamp = D * 86400 + 3 * 3600 /\ m.direction = "incoming"
           /\ \E m \in Rows : /\ m.timestamp = D * 86400 + 3 * 3600 - 1
                               /\ m.timestamp \div 86400 = D
                               /\ m.direction = "outgoing"
           /\ BagCardinality(messages) = 2
           /\ Doc.semana_actual.mensajes_por_dia[1] = [date |-> D, in |-> 1, out |-> 0]
           /\ Doc.semana_anterior.mensajes_por_dia[7] = [date |-> D - 1, in |-> 0, out |-> 1]

(* the entry of the comparison with the given key *)
Comp(key) ==
    CHOOSE e \in {Doc.comparativa_semanal[i] : i \in DOMAIN Doc.comparativa_semanal} :
        e.key = key

(* the values of the two weekly snapshots that the entry of a key compares *)
PrevOf(key) ==
    CASE key = "mensajes_totales_in"           -> Some(Doc.semana_anterior.mensajes_totales_in)
      [] key = "mensajes_respondidos"          -> Some(Doc.semana_anterior.mensajes_totales_out)
      [] key = "tiempo_promedio_respuesta_min" -> Doc.semana_anterior.frt_avg_min
      [] key = "tasa_respuesta_24h"            -> Doc.semana_anterior.pct_respondido_24h
      [] key = "conversaciones"                -> Some(Doc.semana_anterior.conversations)

CurOf(key) ==
    CASE key = "mensajes_totales_in"           -> Some(Doc.semana_actual.mensajes_totales_in)
      [] key = "mensajes_respondidos"          -> Some(Doc.semana_actual.mensajes_totales_out)
      [] key = "tiempo_promedio_respuesta_min" -> Doc.semana_actual.frt_avg_min
      [] key = "tasa_respuesta_24h"            -> Doc.semana_actual.pct_respondido_24h
      [] key = "conversaciones"                -> Some(Doc.semana_actual.conversations)

CountAndAverageKeys ==
    {"mensajes_totales_in", "mensajes_respondidos",
     "tiempo_promedio_respuesta_min", "conversaciones"}

(* (cur - prev) / prev * 100 to 2 places, in hundredths, for prev # 0 *)
PercentOf(prev, cur) ==
    IF prev > 0 THEN Round2(100 * (cur - prev), prev)
                ELSE Round2(100 * (prev - cur), 0 - prev)

(* C15: for the incoming totals, the outgoing totals, the average FRT and  *)
(* the conversation counts, when the values of both weeks are non-null the *)
(* change is 0 if previous = 0 and current = 0, null if previous = 0 and   *)
(* current # 0, and otherwise (current - previous) / previous * 100,       *)
(* reported to 2 places                                                    *)
C15_PercentChangeOfCountsAndAverages ==
    Done =>
        \A k \in CountAndAverageKeys :
            /\ Comp(k).semana_anterior = PrevOf(k)
            /\ Comp(k).semana_actual = CurOf(k)
            /\ (PrevOf(k) # None /\ CurOf(k) # None) =>
                  LET prev == PrevOf(k)[1]
                      cur  == CurOf(k)[1]
                  IN  /\ (prev = 0 /\ cur = 0) => Comp(k).cambio_porcentual = Some(0)
                      /\ (prev = 0 /\ cur # 0) => Comp(k).cambio_porcentual = None
                      /\ prev # 0 => Comp(k).cambio_porcentual = Some(PercentOf(prev, cur))

C15_Witness ==
    /\ Done
    /\ Comp("mensajes_totales_in").semana_anterior = Some(2)
    /\ Comp("mensajes_totales_in").semana_actual = Some(1)
    /\ Comp("mensajes_totales_in").cambio_porcentual = Some(0 - 5000)
    /\ Comp("mensajes_respondidos").semana_anterior = Some(0)
    /\ Comp("mensajes_respondidos").semana_actual = Some(0)
    /\ Comp("mensajes_respondidos").cambio_porcentual = Some(0)
    /\ Comp("conversaciones").semana_anterior = Some(1)
    /\ Comp("conversaciones").semana_actual = Some(1)
    /\ Comp("conversaciones").cambio_porcentual = Some(0)

(* the remaining case: previous = 0 and current # 0 gives null *)
C15_ReachUndefined ==
    /\ Done
    /\ Comp("mensajes_respondidos").semana_anterior = Some(0)
    /\ Comp("mensajes_respondidos").semana_actual = Some(1)
    /\ Comp("mensajes_respondidos").cambio_porcentual = None
    /\ Comp("mensajes_totales_in").semana_anterior = Some(1)
    /\ Comp("mensajes_totales_in").semana_actual = Some(1)
    /\ Comp("mensajes_totales_in").cambio_porcentual = Some(0)

(* C16: for the SLA rate, tasa_respuesta_24h, the change is the difference *)
(* in points current - previous of the two weekly percentages, not their   *)
(* percent change (50.0 -> 75.0 gives 25.0)                                *)
C16_SlaChangeIsPointDifference ==
    LET k == "tasa_respuesta_24h"
    IN  Done =>
          /\ Comp(k).semana_anterior = PrevOf(k)
          /\ Comp(k).semana_actual = CurOf(k)
          /\ (PrevOf(k) # None /\ CurOf(k) # None) =>
                Comp(k).cambio_porcentual = Some(CurOf(k)[1] - PrevOf(k)[1])

ComparisonKeys == CountAndAverageKeys \cup {"tasa_respuesta_24h"}

(* C17: in every entry of the comparison, when the value of the previous   *)
(* or of the current week is null the change is null, and the document is  *)
(* produced all the same                                                   *)
C17_NullValueGivesNullChange ==
    Done =>
        /\ r # None
        /\ \A k \in ComparisonKeys :
              /\ Comp(k).semana_anterior = PrevOf(k)
              /\ Comp(k).semana_actual = CurOf(k)
              /\ (PrevOf(k) = None \/ CurOf(k) = None) =>
                    Comp(k).cambio_porcentual = None

C17_Witness ==
    /\ Done
    /\ Comp("tiempo_promedio_respuesta_min").semana_anterior = None
    /\ Comp("tiempo_promedio_respuesta_min").semana_actual = Some(0)
    /\ Comp("tiempo_promedio_respuesta_min").cambio_porcentual = None
    /\ Comp("tasa_respuesta_24h").semana_anterior = Some(10000)
    /\ Comp("tasa_respuesta_24h").semana_actual = None
    /\ Comp("tasa_respuesta_24h").cambio_porcentual = None

(* C19: a dashboard computation leaves the channels, the conversations and *)
(* the messages of the store unchanged: the step that computes the         *)
(* document and the step that returns it only read the store               *)
C19_DashboardOnlyReads ==
    [][(pc = "done" \/ pc' = "done") => UNCHANGED <<channels, conversations, messages>>]_vars

C19_Witness ==
    /\ Done
    /\ Len(conversations) = 2
    /\ BagCardinality(messages) = 3
    /\ \E m \in Rows : m.timestamp < WinFrom(Doc.semana_actual)
    /\ Doc.general.conversations_total = 2
    /\ Doc.general.mensajes_totales_in + Doc.general.mensajes_totales_out = 3

(* C20: the document has exactly the four top-level fields general,        *)
(* semana_anterior, semana_actual, comparativa_semanal, inserted in that   *)
(* order, and the comparison has exactly five entries: incoming totals,    *)
(* answered totals, average FRT, SLA rate, conversation counts, whatever   *)
(* the store holds                                                         *)
C20_FourFieldsFiveEntries ==
    Done =>
        /\ DOMAIN Doc = {"general", "semana_anterior", "semana_actual", "comparativa_semanal"}
        /\ Len(dashboard_fields) = 4
        /\ {dashboard_fields[i] : i \in 1 .. 4} = DOMAIN Doc
        /\ dashboard_fields[1] = "general"
        /\ dashboard_fields[2] = "semana_anterior"
        /\ dashboard_fields[3] = "semana_actual"
        /\ dashboard_fields[4] = "comparativa_semanal"
        /\ DOMAIN Doc.comparativa_semanal = 1 .. 5
        /\ [i \in 1 .. 5 |-> Doc.comparativa_semanal[i].key]
              = <<"mensajes_totales_in", "mensajes_respondidos",
                  "tiempo_promedio_respuesta_min", "tasa_respuesta_24h", "conversaciones">>
        /\ \A i \in 1 .. 5 :
              DOMAIN Doc.comparativa_semanal[i]
                = {"key", "semana_anterior", "semana_actual", "cambio_porcentual"}

C20_Witness ==
    /\ Done
    /\ Rows = {}
    /\ conversations = <<>>
    /\ Cardinality(DOMAIN Doc) = 4
    /\ Len(Doc.comparativa_semanal) = 5
    /\ Doc.general.frt_avg_min = None
    /\ \A i \in {1, 2, 5} : Doc.comparativa_semanal[i].cambio_porcentual = Some(0)
    /\ \A i \in {3, 4} : Doc.comparativa_semanal[i].cambio_porcentual = None

(* C21: when the time zone database is unavailable the failed lookup is    *)
(* caught, UTC takes the place of the local zone, and the request still    *)
(* ends with a document                                                    *)
C21_ZoneFallbackToUtc ==
    (pc # "idle" /\ ZoneInfoRaises(BuenosAires)) =>
        /\ pc = "done"
        /\ Doc.semana_anterior.ventana.zona = "UTC"
        /\ Doc.semana_actual.ventana.zona = "UTC"

(* the messages whose conversation is a row of the store *)
ResolvableRows == {m \in Rows : m.conversation_id \in ConvIds}

InWindow(m, w) == m.timestamp >= WinFrom(w) /\ m.timestamp < WinTo(w)

C23_FrtWeeksDisjoint ==
    Done =>
        DOMAIN calculate_frt_weekly(WinFrom(Doc.semana_anterior), WinTo(Doc.semana_anterior))
          \cap DOMAIN calculate_frt_weekly(WinFrom(Doc.semana_actual), WinTo(Doc.semana_actual))
          = {}

AnsweredEarly == {c \in ConvIds : Answered(c) /\ Gap(c) < 0}

(* C25: the FRT of a conversation answered before its first incoming       *)
(* message is the negative value of the formula; with that value the       *)
(* conversation enters the general and the weekly average, and it is       *)
(* counted among the conversations that meet the SLA                       *)
C25_NegativeFrtNotClamped ==
    LET answered == {c \in ConvIds : Answered(c)}
        value    == [c \in answered |-> Gap(c) \div 60]
    IN  Done =>
          /\ \A c \in AnsweredEarly :
                /\ calculate_frt_all[c] = Some(value[c])
                /\ value[c] < 0
          /\ AnsweredEarly # {} =>
                /\ SameRatio(general_frt_avg, SumF(value, answered), Cardinality(answered))
                /\ Doc.general.frt_avg_min
                      = Some(Round2(SumF(value, answered), Cardinality(answered)))
          /\ \A w \in {Doc.semana_anterior, Doc.semana_actual} :
                LET frt_weekly == calculate_frt_weekly(WinFrom(w), WinTo(w))
                    K == DOMAIN frt_weekly
                IN  /\ \A c \in K \cap AnsweredEarly : frt_weekly[c] = value[c]
                    /\ (K \cap AnsweredEarly # {}) =>
                          w.frt_avg_min = Some(Round2(SumF(value, K), Cardinality(K)))
          /\ general_ok24 >= Cardinality(AnsweredEarly)
          /\ general_ok24 = Cardinality({c \in answered : c \in AnsweredEarly \/ value[c] <= 1440})
          /\ Len(conversations) > 0 =>
                Doc.general.pct_respondido_24h
                   = Some(Round2(100 * Cardinality({c \in answered :
                                                      c \in AnsweredEarly \/ value[c] <= 1440}),
                                 Len(conversations)))

C25_Witness ==
    /\ Done
    /\ Len(conversations) = 1
    /\ AnsweredEarly = {1}
    /\ Gap(1) = - (1441 * 60)
    /\ calculate_frt_all[1] = Some(-1441)
    /\ Doc.general.frt_avg_min = Some(-144100)
    /\ Doc.general.pct_respondido_24h = Some(10000)
    /\ Doc.semana_anterior.frt_avg_min = Some(-144100)

(* the whole minutes of a gap of g seconds, truncated toward zero *)
TowardZero(g) == IF g >= 0 THEN g \div 60 ELSE - ((- g) \div 60)

(* the FRT values computed for conversation c, in the general list and in  *)
(* the list of each week of the document                                   *)
FrtValuesOf(c) ==
    {calculate_frt_all[c][1]}
      \cup UNION {LET frt_weekly == calculate_frt_weekly(WinFrom(w), WinTo(w))
                  IN  IF c \in DOMAIN frt_weekly THEN {frt_weekly[c]} ELSE {} :
                  w \in {Doc.semana_anterior, Doc.semana_actual}}

(* C26, as stated: the whole-minute conversion truncates toward zero for   *)
(* every gap, negative gaps included (-30 seconds give 0 minutes)          *)
C26_ConversionTruncatesTowardZero ==
    Done => \A c \in ConvIds :
               Answered(c) => FrtValuesOf(c) = {TowardZero(Gap(c))}

(* C26, amended: the conversion rounds toward minus infinity; it agrees    *)
(* with truncation toward zero for gaps >= 0 and for negative gaps of      *)
(* whole minutes, and is one minute below it for every other negative gap  *)
C26_ConversionRoundsDown ==
    Done => \A c \in ConvIds :
               Answered(c) =>
                  FrtValuesOf(c) = {IF Gap(c) < 0 /\ Gap(c) % 60 # 0
                                    THEN TowardZero(Gap(c)) - 1
                                    ELSE TowardZero(Gap(c))}

C26_Witness ==
    /\ Done
    /\ \E c \in ConvIds :
          /\ Answered(c)
          /\ Gap(c) = -1
          /\ TowardZero(Gap(c)) = 0
          /\ FrtValuesOf(c) = {-1}
    /\ Len(conversations) = 1
    /\ Doc.general.frt_avg_min = Some(-100)
    /\ Doc.semana_anterior.frt_avg_min = Some(-100)

(* the positive side: a gap one second short of 1441 minutes gives 1440 *)
C26_ReachPositive ==
    /\ Done
    /\ \E c \in ConvIds :
          /\ Answered(c)
          /\ Gap(c) = 1441 * 60 - 1
          /\ FrtValuesOf(c) = {1440}

(* the fields of a weekly snapshot that are lists of counting cells *)
BreakdownFields(w) ==
    DOMAIN w \ {"ventana", "frt_avg_min", "pct_respondido_24h", "conversations",
                "mensajes_totales_in", "mensajes_totales_out"}

(* b has one cell per day of the week of w and channel of the store, and   *)
(* each cell counts the messages of the week of that local date and of     *)
(* the conversations of that channel                                       *)
IsDayChannelBreakdown(b, w) ==
    /\ Len(b) = 7 * Len(channels)
    /\ \A i \in DOMAIN b : {"date", "name", "in", "out"} \subseteq DOMAIN b[i]
    /\ \A d \in w.ventana.desde_lunes .. w.ventana.hasta_domingo, name \in ChannelNames :
          \E i \in DOMAIN b :
             LET cell == {m \in RowsOf(name) \cap TrafficOf(d) : InWindow(m, w)}
             IN  /\ b[i].date = d
                 /\ b[i].name = name
                 /\ b[i].in = CountMsgs({m \in cell : m.direction = "incoming"})
                 /\ b[i].out = CountMsgs({m \in cell : m.direction = "outgoing"})

(* C27: every weekly snapshot has a breakdown by day and channel: one cell *)
(* for each of the 7 days of the week and each channel, 0 where nothing    *)
(* was counted, every resolvable message of the week counted in the cell   *)
(* of its local date and of the channel of its conversation                *)
C27_DayByChannelBreakdown ==
    Done =>
        \A w \in {Doc.semana_anterior, Doc.semana_actual} :
            \E k \in BreakdownFields(w) : IsDayChannelBreakdown(w[k], w)

(* the inquiry of conversation c: its first incoming message *)
Inquiry(c) ==
    CHOOSE m \in Rows : /\ m.conversation_id = c /\ m.direction = "incoming"
                        /\ first_ts(c, "incoming") = Some(m.timestamp)

Replies(c) == {m \in Rows : m.conversation_id = c /\ m.direction = "outgoing"}

(* C28: the timestamps stored are UTC instants: the outgoing message that  *)
(* POST /send stores carries the instant of sending, and so a conversation *)
(* whose replies were all sent after its inquiry arrived has a first       *)
(* outgoing timestamp not before its first incoming one and an FRT >= 0    *)
C28_SentMessagesStoredInUtc ==
    /\ \A m \in Rows : m.direction = "outgoing" => m.timestamp = m.created_at
    /\ \A c \in ConvIds :
          (/\ first_ts(c, "incoming") # None
           /\ first_ts(c, "outgoing") # None
           /\ \A o \in Replies(c) : o.created_at > Inquiry(c).created_at)
             => /\ first_ts(c, "outgoing")[1] >= first_ts(c, "incoming")[1]
                /\ calculate_frt_all[c][1] >= 0

(* C28, the consequence alone: a conversation answered after its inquiry   *)
(* has no negative FRT                                                     *)
C28_ReplyAfterInquiryHasFrt ==
    \A c \in ConvIds :
        (/\ first_ts(c, "incoming") # None
         /\ first_ts(c, "outgoing") # None
         /\ \A o \in Replies(c) : o.created_at > Inquiry(c).created_at)
           => calculate_frt_all[c][1] >= 0

(* the timestamp of m lies between the local midnights around date d *)
OnLocalDate(m, d) ==
    /\ m.timestamp >= d * 86400 + 3 * 3600
    /\ m.timestamp < (d + 1) * 86400 + 3 * 3600

(* C29: in a weekly snapshot whose messages are all incoming or outgoing   *)
(* the 'in' counts of the 7 entries of mensajes_por_dia add up to          *)
(* mensajes_totales_in and the 'out' counts to mensajes_totales_out: each  *)
(* message of the week's interval falls on exactly one of the 7 dates      *)
C29_DailySumsEqualWeeklyTotals ==
    Done =>
        \A w \in {Doc.semana_anterior, Doc.semana_actual} :
            LET selected == {m \in Rows : InWindow(m, w)}
                dates    == {w.mensajes_por_dia[i].date : i \in DOMAIN w.mensajes_por_dia}
            IN  (\A m \in selected : m.direction \in {"incoming", "outgoing"}) =>
                   /\ SumIn(w.mensajes_por_dia) = w.mensajes_totales_in
                   /\ SumOut(w.mensajes_por_dia) = w.mensajes_totales_out
                   /\ \A m \in selected :
                         \E d \in dates :
                            /\ OnLocalDate(m, d)
                            /\ \A e \in dates \ {d} : ~ OnLocalDate(m, e)

C29_Witness ==
    /\ Done
    /\ \E m \in Rows : /\ m.direction = "incoming"
                        /\ m.timestamp = WinTo(Doc.semana_anterior) - 1
    /\ \E m \in Rows : /\ m.direction = "outgoing"
                        /\ m.timestamp = WinFrom(Doc.semana_actual)
    /\ BagCardinality(messages) = 3
    /\ Doc.semana_anterior.mensajes_totales_in = 2
    /\ Doc.semana_anterior.mensajes_por_dia[7].in = 2
    /\ Doc.semana_anterior.mensajes_totales_out = 0
    /\ Doc.semana_actual.mensajes_totales_out = 1
    /\ Doc.semana_actual.mensajes_por_dia[1].out = 1
    /\ SumOut(Doc.semana_actual.mensajes_por_dia) = 1
====
